---- MODULE Spec2Model ----
(***************************************************************************)
(* Model of src/src/data_loader.py: the Olist dataset assembler.           *)
(*                                                                         *)
(* A table (pandas DataFrame) is a sequence of rows; a row is a record     *)
(* from column names to cells.  A cell is either Null (pandas NaN / NaT /  *)
(* None) or Some(v).  Integers stand for the numeric values of the CSV     *)
(* files (prices in whole units, zip prefixes, scores).  Columns that the  *)
(* pipeline only carries through unchanged (city, state, product weight    *)
(* and dimensions, four of the five order timestamps) are left out.        *)
(***************************************************************************)
EXTENDS Integers, Sequences, FiniteSets, TLC

VARIABLES
    files,      \* file system under data_dir: [dir : BOOLEAN, present : SUBSET TableNames]
    csv,        \* contents and header of the nine CSV files, as pd.read_csv yields them
    save_path,  \* argument save_path of build_modeling_dataframe: NoPath or a path
    pc,         \* "start", "returned" (build_modeling_dataframe returned), "failed" (it raised)
    orders,     \* the DataFrame build_modeling_dataframe returned, NoTable before and on failure
    err,        \* the exception build_modeling_dataframe raised, NoError otherwise
    disk,       \* output files: path -> NoFile or [format, table]
    load_pc,    \* "idle", "returned" or "failed": load_modeling_data
    load_path,  \* argument of the load_modeling_data call
    loaded      \* the DataFrame load_modeling_data returned, or the exception it raised

vars == <<files, csv, save_path, pc, orders, err, disk, load_pc, load_path, loaded>>

(***************************************************************************)
(* Cells                                                                   *)
(***************************************************************************)
Null == <<>>
Some(v) == <<v>>
IsNull(c) == c = Null
Val(c) == c[1]

\* Series.fillna(d)
FillNa(c, d) == IF IsNull(c) THEN Some(d) ELSE c

\* Series.astype(str): a missing value becomes the three-letter string "nan"
AsTypeStr(c) == IF IsNull(c) THEN Some("nan") ELSE c

\* nothing returned, nothing raised, no such file, no path given (None)
NoTable == <<>>
NoError == [type |-> "none", msg |-> "", path |-> <<>>]
NoFile == [format |-> "none", table |-> <<>>]
NoPath == <<>>

(***************************************************************************)
(* Bounds of the model                                                     *)
(***************************************************************************)
MaxRows == 2        \* rows of a table that is varied

(***************************************************************************)
(* Sequence helpers                                                        *)
(***************************************************************************)
SeqsUpTo(S, n) == UNION {[1..k -> S] : k \in 0..n}

RECURSIVE Concat(_)
Concat(ss) == IF ss = <<>> THEN <<>> ELSE Head(ss) \o Concat(Tail(ss))

RECURSIVE SumSeq(_)
SumSeq(s) == IF s = <<>> THEN 0 ELSE Head(s) + SumSeq(Tail(s))

RECURSIVE SortedSeq(_)
SortedSeq(S) ==
    IF S = {} THEN <<>>
    ELSE LET m == CHOOSE x \in S : \A y \in S : x <= y
         IN  <<m>> \o SortedSeq(S \ {m})

Column(df, col) == [i \in 1..Len(df) |-> df[i][col]]
NonNull(cells) == SelectSeq(cells, LAMBDA c : ~IsNull(c))

RECURSIVE GCD(_, _)
GCD(a, b) == IF b = 0 THEN a ELSE GCD(b, a % b)
Abs(n) == IF n < 0 THEN -n ELSE n
\* an exact quotient n/d, d > 0, in lowest terms
Ratio(n, d) == LET g == GCD(Abs(n), d) IN <<n \div g, d \div g>>

(***************************************************************************)
(* pandas operations                                                       *)
(***************************************************************************)
\* DataFrame.merge(right, on=key, how="left" | "inner"): for every left row in
\* order, one output row per right row with an equal key (pandas matches a
\* missing key with a missing key); with how="left" an unmatched left row is
\* kept once, the right table's columns missing.
MergeRow(l, r) == [c \in DOMAIN l \cup DOMAIN r |-> IF c \in DOMAIN l THEN l[c] ELSE r[c]]
NullRow(cols) == [c \in cols |-> Null]
Merge(left, right, key, how, rightCols) ==
    LET Matches(l) == SelectSeq(right, LAMBDA r : r[key] = l[key])
        Rows(l) == IF Matches(l) = <<>>
                   THEN IF how = "left" THEN <<MergeRow(l, NullRow(rightCols))>> ELSE <<>>
                   ELSE [j \in 1..Len(Matches(l)) |-> MergeRow(l, Matches(l)[j])]
    IN  Concat([i \in 1..Len(left) |-> Rows(left[i])])

\* df[cols]
Project(df, cols) == [i \in 1..Len(df) |-> [c \in cols |-> df[i][c]]]

\* DataFrame.sort_values(col): ascending, missing values last in their original
\* order (nargsort); the default sort is not stable, so rows with equal values
\* may come out in either order.  The set of the orders sort_values may produce,
\* as permutations of the row indices.
SortOrders(df, col) ==
    LET n == Len(df)
        nan == {i \in 1..n : IsNull(df[i][col])}
    IN  {p \in [1..n -> 1..n] :
            /\ \A i, j \in 1..n : i # j => p[i] # p[j]
            /\ \A i, j \in 1..n : i < j =>
                   \/ /\ p[i] \notin nan
                      /\ p[j] \notin nan
                      /\ Val(df[p[i]][col]) <= Val(df[p[j]][col])
                   \/ p[i] \notin nan /\ p[j] \in nan
                   \/ p[i] \in nan /\ p[j] \in nan /\ p[i] < p[j]}
SortValues(df, p) == [i \in 1..Len(df) |-> df[p[i]]]

\* DataFrame.drop_duplicates(subset=[key], keep="first" | "last")
KeepIndices(df, key, keep) ==
    {i \in 1..Len(df) :
        IF keep = "last"
        THEN \A j \in (i+1)..Len(df) : df[j][key] # df[i][key]
        ELSE \A j \in 1..(i-1) : df[j][key] # df[i][key]}
DropDuplicates(df, key, keep) ==
    LET idx == SortedSeq(KeepIndices(df, key, keep))
    IN  [k \in 1..Len(idx) |-> df[idx[k]]]

\* groupby(key): the groups are the distinct non-missing keys in ascending order
GroupKeys(df, key) == SortedSeq({Val(df[i][key]) : i \in {j \in 1..Len(df) : ~IsNull(df[j][key])}})
Group(df, key, k) == SelectSeq(df, LAMBDA r : r[key] = Some(k))
\* the aggregations skip missing values
AggSum(g, col) == Some(SumSeq([i \in 1..Len(NonNull(Column(g, col))) |-> Val(NonNull(Column(g, col))[i])]))
AggCount(g, col) == Some(Len(NonNull(Column(g, col))))
\* variant of AggFirst that takes the last value of the group (sensitivity of C6)
AggLast(g, col) == IF NonNull(Column(g, col)) = <<>> THEN Null
                   ELSE NonNull(Column(g, col))[Len(NonNull(Column(g, col)))]
AggFirst(g, col) == IF NonNull(Column(g, col)) = <<>> THEN Null ELSE Head(NonNull(Column(g, col)))
AggMean(g, col) ==
    LET v == NonNull(Column(g, col))
    IN  IF v = <<>> THEN Null
        ELSE Some(Ratio(SumSeq([i \in 1..Len(v) |-> Val(v[i])]), Len(v)))

(***************************************************************************)
(* load_raw_tables                                                         *)
(***************************************************************************)
\* DEFAULT_FILES, in the order of the dict
TableNames == {"orders", "customers", "order_items", "order_payments", "reviews",
               "products", "sellers", "geolocation", "category_translation"}
DEFAULT_FILES ==
    << <<"orders", "olist_orders_dataset.csv">>,
       <<"customers", "olist_customers_dataset.csv">>,
       <<"order_items", "olist_order_items_dataset.csv">>,
       <<"order_payments", "olist_order_payments_dataset.csv">>,
       <<"reviews", "olist_order_reviews_dataset.csv">>,
       <<"products", "olist_products_dataset.csv">>,
       <<"sellers", "olist_sellers_dataset.csv">>,
       <<"geolocation", "olist_geolocation_dataset.csv">>,
       <<"category_translation", "product_category_name_translation.csv">> >>

data_dir == "data"

FileNotFoundError(msg, path) == [type |-> "FileNotFoundError", msg |-> msg, path |-> path]

\* the files that are absent, as positions in DEFAULT_FILES
Missing(fs) == {i \in 1..Len(DEFAULT_FILES) : DEFAULT_FILES[i][1] \notin fs.present}
\* variant of FirstMissing that reports the last absent file (sensitivity of C4)
LastMissing(fs) == CHOOSE i \in Missing(fs) : \A j \in Missing(fs) : j <= i
\* the file at which the loop over DEFAULT_FILES stops
FirstMissing(fs) == CHOOSE i \in Missing(fs) : \A j \in Missing(fs) : i <= j

\* the exception load_raw_tables raises for the file system fs, NoError if none
LoadError(fs) ==
    IF ~fs.dir
    THEN FileNotFoundError("Data directory not found", <<data_dir>>)
    ELSE IF Missing(fs) # {}
    THEN FileNotFoundError("Expected CSV not found",
                           <<data_dir, DEFAULT_FILES[FirstMissing(fs)][2]>>)
    ELSE NoError

\* the dict load_raw_tables returns when it does not raise: every file, read whole
load_raw_tables(contents) == contents.tables

(***************************************************************************)
(* _parse_dates                                                            *)
(***************************************************************************)
\* the timestamps pd.to_datetime can parse, and what it parses them to
Timestamps == {"2018-01-02", "2018-03-04"}
Timestamp(s) == <<"Timestamp", s>>
\* pd.to_datetime(errors="coerce") of one cell: NaT for what does not parse
ToDatetime(c) ==
    IF IsNull(c) THEN Null
    ELSE IF Val(c) \in Timestamps THEN Some(Timestamp(Val(c))) ELSE Null
parse_dates(df, date_cols) ==
    [i \in 1..Len(df) |->
        [c \in DOMAIN df[i] |-> IF c \in date_cols THEN ToDatetime(df[i][c]) ELSE df[i][c]]]

(***************************************************************************)
(* build_orders_with_target                                                *)
(***************************************************************************)
\* variant of Target that compares with < 2 (sensitivity of C2)
Target_StrictlyBelow(score) == IF ~IsNull(score) /\ Val(score) < 2 THEN Some(1) ELSE Some(0)
\* (review_score <= 2).astype(int): a comparison with a missing score is False
Target(score) == IF ~IsNull(score) /\ Val(score) <= 2 THEN Some(1) ELSE Some(0)

\* the reviews, one per order when the creation date column is there; p is the
\* order sort_values produced
DedupReviews(reviews, columns, p) ==
    IF "review_creation_date" \in columns
    THEN DropDuplicates(SortValues(reviews, p), "order_id", "last")
    ELSE reviews

build_orders_with_target(tables, columns, p) ==
    LET reviews == Project(DedupReviews(tables.reviews, columns.reviews, p),
                           {"order_id", "review_score"})
        merged == Merge(tables.orders, reviews, "order_id", "inner", {"review_score"})
    IN  [i \in 1..Len(merged) |->
            MergeRow(merged[i], [target |-> Target(merged[i].review_score)])]

(***************************************************************************)
(* build_modeling_dataframe: the joins                                     *)
(***************************************************************************)
\* Series.astype(int) of a column of whole numbers from which fillna has
\* removed the missing values: the float becomes the integer of the same value
AsTypeInt(c) == c


ItemCols == {"order_value", "freight_value", "num_items", "product_id", "seller_id"}
\* items.groupby("order_id").agg(...).reset_index()
OrderAgg(items) ==
    LET keys == GroupKeys(items, "order_id")
    IN  [k \in 1..Len(keys) |->
            LET g == Group(items, "order_id", keys[k])
            IN  [order_id      |-> Some(keys[k]),
                 order_value   |-> AggSum(g, "price"),
                 freight_value |-> AggSum(g, "freight_value"),
                 num_items     |-> AggCount(g, "order_item_id"),
                 product_id    |-> AggFirst(g, "product_id"),
                 seller_id     |-> AggFirst(g, "seller_id")]]

\* variant of FillItems that leaves num_items as the join left it (sensitivity of C5)
FillItems_CountUnfilled(r) ==
    [r EXCEPT !.order_value   = FillNa(r.order_value, 0),
              !.freight_value = FillNa(r.freight_value, 0),
              !.product_id    = FillNa(r.product_id, ""),
              !.seller_id     = FillNa(r.seller_id, "")]
\* the left join of the item aggregates and the fills that follow it
FillItems(r) ==
    [r EXCEPT !.order_value   = FillNa(r.order_value, 0),
              !.freight_value = FillNa(r.freight_value, 0),
              !.num_items     = AsTypeInt(FillNa(r.num_items, 0)),
              !.product_id    = FillNa(r.product_id, ""),
              !.seller_id     = FillNa(r.seller_id, "")]
JoinItems(df, tables) ==
    LET merged == Merge(df, OrderAgg(tables.order_items), "order_id", "left", ItemCols)
    IN  [i \in 1..Len(merged) |-> FillItems(merged[i])]

PayCols == {"payment_type", "payment_installments", "payment_value"}
\* variant of PrimaryPayments with keep="last" (sensitivity of C7)
PrimaryPayments_KeepLast(payments, p) ==
    DropDuplicates(SortValues(payments, p), "order_id", "last")
\* the primary payment of every order; p is the order sort_values produced
PrimaryPayments(payments, p) ==
    DropDuplicates(SortValues(payments, p), "order_id", "first")
FillPayments(r) ==
    [r EXCEPT !.payment_type         = FillNa(r.payment_type, "unknown"),
              !.payment_installments = AsTypeInt(FillNa(r.payment_installments, 0))]
JoinPayments(df, tables, p) ==
    LET primary == Project(PrimaryPayments(tables.order_payments, p), {"order_id"} \cup PayCols)
        merged == Merge(df, primary, "order_id", "left", PayCols)
    IN  [i \in 1..Len(merged) |-> FillPayments(merged[i])]

JoinCustomers(df, tables) ==
    Merge(df, tables.customers, "customer_id", "left", {"customer_zip_code_prefix"})
JoinSellers(df, tables) ==
    Merge(df, tables.sellers, "seller_id", "left", {"seller_zip_code_prefix"})
JoinProducts(df, tables) ==
    Merge(df, tables.products, "product_id", "left", {"product_category_name"})

\* the category translation, its English column renamed
RenamedTranslation(trans) ==
    [i \in 1..Len(trans) |->
        [product_category_name    |-> trans[i].product_category_name,
         product_category_english |-> trans[i].product_category_name_english]]
\* product_category_english of a row after the left join with the translation
EnglishFallback(r) ==
    IF IsNull(r.product_category_english)
    THEN AsTypeStr(r.product_category_name)
    ELSE r.product_category_english
\* product_category_english of a row when there is no translation to join
EnglishWithoutTranslation(r) == AsTypeStr(FillNa(r.product_category_name, ""))
JoinTranslation(df, tables, columns) ==
    IF "product_category_name" \in columns.category_translation
    THEN LET merged == Merge(df, RenamedTranslation(tables.category_translation),
                             "product_category_name", "left", {"product_category_english"})
         IN  [i \in 1..Len(merged) |->
                 [merged[i] EXCEPT !.product_category_english = EnglishFallback(merged[i])]]
    ELSE [i \in 1..Len(df) |->
             MergeRow(df[i], [product_category_english |-> EnglishWithoutTranslation(df[i])])]

\* geo.groupby("geolocation_zip_code_prefix").agg(lat=mean, lng=mean), renamed
GeoAgg(geo, zip, lat, lng) ==
    LET keys == GroupKeys(geo, "geolocation_zip_code_prefix")
    IN  [k \in 1..Len(keys) |->
            LET g == Group(geo, "geolocation_zip_code_prefix", keys[k])
            IN  (zip :> Some(keys[k])) @@ (lat :> AggMean(g, "geolocation_lat"))
                                       @@ (lng :> AggMean(g, "geolocation_lng"))]
\* variant of ZipKey without the fillna(0) (sensitivity of C9)
ZipKey_Unfilled(c) == AsTypeInt(c)
\* the zip prefix as the geolocation join sees it
ZipKey(c) == AsTypeInt(FillNa(c, 0))
JoinGeo(df, tables, columns) ==
    IF "geolocation_zip_code_prefix" \in columns.geolocation
    THEN LET keyed == [i \in 1..Len(df) |->
                 [df[i] EXCEPT !.customer_zip_code_prefix = ZipKey(df[i].customer_zip_code_prefix),
                               !.seller_zip_code_prefix   = ZipKey(df[i].seller_zip_code_prefix)]]
             cust_geo == GeoAgg(tables.geolocation, "customer_zip_code_prefix",
                                "customer_lat", "customer_lng")
             sell_geo == GeoAgg(tables.geolocation, "seller_zip_code_prefix",
                                "seller_lat", "seller_lng")
         IN  Merge(Merge(keyed, cust_geo, "customer_zip_code_prefix", "left",
                         {"customer_lat", "customer_lng"}),
                   sell_geo, "seller_zip_code_prefix", "left", {"seller_lat", "seller_lng"})
    ELSE df

DateCols == {"order_purchase_timestamp"}

\* the table build_modeling_dataframe assembles from the loaded tables; pr and
\* pp are the orders in which sort_values left the reviews and the payments
Assemble(tables, columns, pr, pp) ==
    LET o1 == parse_dates(build_orders_with_target(tables, columns, pr), DateCols)
        o2 == JoinItems(o1, tables)
        o3 == JoinPayments(o2, tables, pp)
        o4 == JoinCustomers(o3, tables)
        o5 == JoinSellers(o4, tables)
        o6 == JoinProducts(o5, tables)
        o7 == JoinTranslation(o6, tables, columns)
    IN  JoinGeo(o7, tables, columns)

(***************************************************************************)
(* Output files: to_parquet / to_csv, read_parquet / read_csv              *)
(***************************************************************************)
\* a path is <<stem, suffix>>; Path(p).suffix
Suffix(path) == path[2]

StringCols == {"customer_id", "product_id", "seller_id", "payment_type",
               "product_category_name", "product_category_english"}
\* the strings read_csv takes for a missing value, among those a cell can hold
NA_VALUES == {"", "nan"}

\* a field of a CSV file with nothing in it
EmptyField == <<>>
\* DataFrame.to_csv(index=False): every cell as the file holds it; a missing
\* value and the empty string are both an empty field, a timestamp is its text
CsvField(col, c) ==
    IF IsNull(c) THEN EmptyField
    ELSE IF col \in DateCols THEN Some(Val(c)[2])
    ELSE IF col \in StringCols /\ Val(c) = "" THEN EmptyField
    ELSE c
ToCsv(df) == [i \in 1..Len(df) |-> [c \in DOMAIN df[i] |-> CsvField(c, df[i][c])]]
\* pd.read_csv: an empty field is missing, and so is a string that is one of
\* NA_VALUES; a timestamp stays the string the file holds
CsvValue(col, f) ==
    IF f = EmptyField THEN Null
    ELSE IF col \in StringCols \cup DateCols /\ Val(f) \in NA_VALUES THEN Null
    ELSE f
ReadCsv(fields) ==
    [i \in 1..Len(fields) |-> [c \in DOMAIN fields[i] |-> CsvValue(c, fields[i][c])]]

\* variant of WriteFormat that never writes a columnar file (sensitivity of C8)
WriteFormat_AlwaysCsv(out) == "csv"
\* the format of the file build_modeling_dataframe writes to path out
WriteFormat(out) == IF Suffix(out) = ".parquet" THEN "parquet" ELSE "csv"
WriteFile(df, out) ==
    IF WriteFormat(out) = "parquet"
    THEN [format |-> "parquet", table |-> df]
    ELSE [format |-> "csv", table |-> ToCsv(df)]

\* what load_modeling_data(path) returns or raises
ReadFormat(path) == IF Suffix(path) = ".parquet" THEN "parquet" ELSE "csv"
Returned(df) == [ok |-> TRUE, table |-> df, error |-> NoError]
Raised(e) == [ok |-> FALSE, table |-> <<>>, error |-> e]
\* pd.read_parquet / pd.read_csv of a file of the other format do not decode it
DecodeError(path) == [type |-> "DecodeError", msg |-> "not a file of this format", path |-> path]
load_modeling_data(d, path) ==
    IF d[path] = NoFile
    THEN Raised(FileNotFoundError("Modeling data not found", path))
    ELSE IF ReadFormat(path) # d[path].format THEN Raised(DecodeError(path))
    ELSE IF ReadFormat(path) = "parquet" THEN Returned(d[path].table)
    ELSE Returned(ReadCsv(d[path].table))

(***************************************************************************)
(* Inputs                                                                  *)
(***************************************************************************)
OrderRow(id, cust, ts) ==
    [order_id |-> Some(id), customer_id |-> Some(cust), order_purchase_timestamp |-> ts]
\* review_creation_date is a string column that sort_values compares as text;
\* the dataset's timestamps have one fixed-width format, in which the order of
\* the text is the order of the dates: an integer stands for such a timestamp
ReviewRow(id, score, date) ==
    [order_id |-> Some(id), review_score |-> score, review_creation_date |-> date]
ItemRow(id, ps, price, freight) ==
    [order_id |-> Some(id), order_item_id |-> Some(1), product_id |-> Some(ps[1]),
     seller_id |-> Some(ps[2]), price |-> Some(price), freight_value |-> Some(freight)]
PaymentRow(id, seq, pay) ==
    [order_id |-> Some(id), payment_sequential |-> Some(seq), payment_type |-> Some(pay[1]),
     payment_installments |-> Some(pay[2]), payment_value |-> Some(pay[3])]
CustomerRow(id, zip) == [customer_id |-> Some(id), customer_zip_code_prefix |-> zip]
SellerRow(id, zip) == [seller_id |-> Some(id), seller_zip_code_prefix |-> zip]
ProductRow(id, cat) == [product_id |-> Some(id), product_category_name |-> cat]
TranslationRow(cat, en) ==
    [product_category_name |-> Some(cat), product_category_name_english |-> Some(en)]
GeoRow(zip, ll) ==
    [geolocation_zip_code_prefix |-> Some(zip), geolocation_lat |-> ll[1], geolocation_lng |-> ll[2]]

\* the rows the tables of the model are made of
OrderRows == {OrderRow(id, "c1", ts) : id \in {1, 2},
                                       ts \in {Null, Some("2018-01-02"), Some("not a date")}}
ReviewRows == {ReviewRow(1, score, date) : score \in {Null, Some(2), Some(3)},
                                           date \in {Null, Some(1), Some(2)}}
                  \cup {ReviewRow(2, Some(3), Some(1))}
ItemRows == {ItemRow(1, ps, price, freight) :
                 ps \in {<<"p1", "s1">>, <<"p2", "s2">>}, price \in {10, 20}, freight \in {1, 2}}
                  \cup {ItemRow(2, <<"p1", "s1">>, 10, 1)}
PaymentRows == {PaymentRow(1, seq, pay) : seq \in {1, 2},
                    pay \in {<<"credit_card", 3, 30>>, <<"boleto", 1, 10>>, <<"voucher", 0, 5>>}}
                  \cup {PaymentRow(2, 1, <<"boleto", 1, 10>>)}
CustomerRows == {CustomerRow("c1", zip) : zip \in {Null, Some(0), Some(10)}}
SellerRows == {SellerRow("s1", zip) : zip \in {Null, Some(0), Some(10)}}
ProductRows == {ProductRow("p1", cat) : cat \in {Null, Some("cama"), Some("pcs")}}
                  \cup {ProductRow("p2", Some("cama"))}
TranslationRows == {TranslationRow("cama", "bed"), TranslationRow("cama", "bed linen"),
                    TranslationRow("pcs", "computers")}
GeoRows == {GeoRow(10, <<Some(4), Some(6)>>), GeoRow(10, <<Some(-2), Some(8)>>),
            GeoRow(0, <<Some(4), Some(6)>>), GeoRow(0, <<Null, Null>>)}
GeoTables == {<<>>, <<GeoRow(10, <<Some(4), Some(6)>>)>>, <<GeoRow(0, <<Some(-2), Some(8)>>)>>}

\* the header of every file of the dataset
AllColumns ==
    [orders |-> {"order_id", "customer_id", "order_purchase_timestamp"},
     customers |-> {"customer_id", "customer_zip_code_prefix"},
     order_items |-> {"order_id", "order_item_id", "product_id", "seller_id", "price", "freight_value"},
     order_payments |-> {"order_id", "payment_sequential", "payment_type",
                         "payment_installments", "payment_value"},
     reviews |-> {"order_id", "review_score", "review_creation_date"},
     products |-> {"product_id", "product_category_name"},
     sellers |-> {"seller_id", "seller_zip_code_prefix"},
     geolocation |-> {"geolocation_zip_code_prefix", "geolocation_lat", "geolocation_lng"},
     category_translation |-> {"product_category_name", "product_category_name_english"}]

\* a small dataset: two orders, the first reviewed, bought and paid
SampleTables ==
    [orders |-> <<OrderRow(1, "c1", Some("2018-01-02")), OrderRow(2, "c1", Some("2018-03-04"))>>,
     customers |-> <<CustomerRow("c1", Some(10))>>,
     order_items |-> <<ItemRow(1, <<"p1", "s1">>, 10, 1)>>,
     order_payments |-> <<PaymentRow(1, 1, <<"credit_card", 3, 30>>)>>,
     reviews |-> <<ReviewRow(1, Some(3), Some(1)), ReviewRow(2, Some(2), Some(2))>>,
     products |-> <<ProductRow("p1", Some("cama"))>>,
     sellers |-> <<SellerRow("s1", Some(10))>>,
     geolocation |-> <<GeoRow(10, <<Some(4), Some(6)>>)>>,
     category_translation |-> <<TranslationRow("cama", "bed")>>]

\* a file without one of its columns
Without(rows, col) == [i \in 1..Len(rows) |-> [c \in DOMAIN rows[i] \ {col} |-> rows[i][c]]]
Dataset(tables, dropped) ==
    [tables  |-> [t \in TableNames |->
                    IF t \in DOMAIN dropped THEN Without(tables[t], dropped[t]) ELSE tables[t]],
     columns |-> [t \in TableNames |->
                    IF t \in DOMAIN dropped THEN AllColumns[t] \ {dropped[t]} ELSE AllColumns[t]]]

NoColumn == <<>>
ParquetPath == <<"data/modeling", ".parquet">>
CsvPath == <<"data/modeling", ".csv">>
Paths == {ParquetPath, CsvPath}
AllFiles == [dir |-> TRUE, present |-> TableNames]

(***************************************************************************)
(* The program                                                             *)
(***************************************************************************)
\* Either some of the files are absent, or all are there and the dataset is
\* the sample with one or two of its tables replaced by every table of at most
\* MaxRows rows, or with a column the code looks for left out of a file.  An
\* order_id identifies a row of the orders table.
Init ==
    /\ \/ /\ files \in {[dir |-> d, present |-> s] : d \in BOOLEAN, s \in SUBSET TableNames}
          /\ files.dir \/ files.present = {}
          /\ csv = Dataset(SampleTables, NoColumn)
          /\ save_path \in Paths \cup {NoPath}
          /\ load_path \in Paths
       \/ /\ files = AllFiles
          /\ save_path = ParquetPath
          /\ load_path = ParquetPath
          /\ \/ \E o \in SeqsUpTo(OrderRows, MaxRows) :
                   /\ \A i, j \in 1..Len(o) : o[i].order_id = o[j].order_id => i = j
                   /\ csv = Dataset([SampleTables EXCEPT !.orders = o], NoColumn)
             \/ \E r \in SeqsUpTo(ReviewRows, MaxRows) :
                \E d \in {NoColumn, [reviews |-> "review_creation_date"]} :
                   csv = Dataset([SampleTables EXCEPT !.reviews = r], d)
             \/ \E i \in SeqsUpTo(ItemRows, MaxRows) :
                   csv = Dataset([SampleTables EXCEPT !.order_items = i], NoColumn)
             \/ \E p \in SeqsUpTo(PaymentRows, MaxRows) :
                   csv = Dataset([SampleTables EXCEPT !.order_payments = p], NoColumn)
             \/ \E c \in SeqsUpTo(CustomerRows, MaxRows), g \in SeqsUpTo(GeoRows, MaxRows) :
                   csv = Dataset([SampleTables EXCEPT !.customers = c, !.geolocation = g], NoColumn)
             \/ \E c \in SeqsUpTo(CustomerRows, MaxRows) :
                   csv = Dataset([SampleTables EXCEPT !.customers = c],
                                 [geolocation |-> "geolocation_zip_code_prefix"])
             \/ \E c \in SeqsUpTo(SellerRows, MaxRows), g \in GeoTables :
                   csv = Dataset([SampleTables EXCEPT !.sellers = c, !.geolocation = g], NoColumn)
             \/ \E p \in SeqsUpTo(ProductRows, MaxRows), t \in SeqsUpTo(TranslationRows, MaxRows) :
                   csv = Dataset([SampleTables EXCEPT !.products = p, !.category_translation = t],
                                 NoColumn)
             \/ \E p \in SeqsUpTo(ProductRows, MaxRows) :
                   csv = Dataset([SampleTables EXCEPT !.products = p],
                                 [category_translation |-> "product_category_name"])
    /\ pc = "start"
    /\ orders = NoTable
    /\ err = NoError
    /\ disk = [p \in Paths |-> NoFile]
    /\ load_pc = "idle"
    /\ loaded = Raised(NoError)

\* the orders in which sort_values may leave the reviews
ReviewOrders(tables, columns) ==
    IF "review_creation_date" \in columns.reviews
    THEN SortOrders(tables.reviews, "review_creation_date")
    ELSE {[i \in 1..Len(tables.reviews) |-> i]}

\* build_modeling_dataframe(data_dir, save_path=save_path) returns
BuildModelingDataframe ==
    /\ pc = "start"
    /\ LoadError(files) = NoError
    /\ LET tables == load_raw_tables(csv)
       IN  \E pr \in ReviewOrders(tables, csv.columns),
              pp \in SortOrders(tables.order_payments, "payment_sequential") :
              /\ orders' = Assemble(tables, csv.columns, pr, pp)
              /\ disk' = IF save_path = NoPath THEN disk
                         ELSE [disk EXCEPT ![save_path] = WriteFile(orders', save_path)]
    /\ pc' = "returned"
    /\ UNCHANGED <<files, csv, save_path, err, load_pc, load_path, loaded>>

\* build_modeling_dataframe raises what load_raw_tables raised
BuildModelingDataframeRaises ==
    /\ pc = "start"
    /\ LoadError(files) # NoError
    /\ err' = LoadError(files)
    /\ pc' = "failed"
    /\ UNCHANGED <<files, csv, save_path, orders, disk, load_pc, load_path, loaded>>

\* load_modeling_data(load_path), called once build_modeling_dataframe is over
LoadModelingData ==
    /\ pc \in {"returned", "failed"}
    /\ load_pc = "idle"
    /\ loaded' = load_modeling_data(disk, load_path)
    /\ load_pc' = IF loaded'.ok THEN "returned" ELSE "failed"
    /\ UNCHANGED <<files, csv, save_path, pc, orders, err, disk, load_path>>

Next == BuildModelingDataframe \/ BuildModelingDataframeRaises \/ LoadModelingData

Spec == Init /\ [][Next]_vars

(***************************************************************************)
(* Properties                                                              *)
(***************************************************************************)
BuildReturned == pc = "returned"
Input(t) == csv.tables[t]
OutRows == 1..Len(orders)
\* the rows of input table t whose column key holds the cell c
RowsWith(t, key, c) == {i \in 1..Len(Input(t)) : Input(t)[i][key] = c}
HasColumn(t, col) == col \in csv.columns[t]

\* C1: build_modeling_dataframe returns exactly one row for every order_id that
\* is in the orders and in the reviews table and no other row, so the number of
\* rows is the number of reviewed orders and no left join adds or drops a row.
C1_OneRowPerReviewedOrder ==
    BuildReturned =>
        LET reviewed == {Input("orders")[i].order_id : i \in 1..Len(Input("orders"))}
                            \cap {Input("reviews")[i].order_id : i \in 1..Len(Input("reviews"))}
        IN  /\ \A id \in reviewed : Cardinality({i \in OutRows : orders[i].order_id = id}) = 1
            /\ \A i \in OutRows : orders[i].order_id \in reviewed
            /\ Len(orders) = Cardinality(reviewed)

C3_LatestReviewKept ==
    (BuildReturned /\ HasColumn("reviews", "review_creation_date")) =>
        \A i \in OutRows :
            LET mine == RowsWith("reviews", "order_id", orders[i].order_id)
                dated == {k \in mine : ~IsNull(Input("reviews")[k].review_creation_date)}
            IN  dated # {} =>
                    \E k \in dated :
                        /\ \A m \in dated : Val(Input("reviews")[m].review_creation_date)
                                                <= Val(Input("reviews")[k].review_creation_date)
                        /\ orders[i].review_score = Input("reviews")[k].review_score
                        /\ orders[i].target = Target(Input("reviews")[k].review_score)

\* C4: when the data directory or one of the nine files is absent,
\* build_modeling_dataframe raises a FileNotFoundError naming the directory, or
\* the first absent file in the order of DEFAULT_FILES; it returns no table and
\* writes no file, whatever save_path is.
InputAbsent == ~files.dir \/ files.present # TableNames
C4_MissingInputAborts ==
    /\ InputAbsent => pc # "returned" /\ orders = NoTable /\ \A p \in Paths : disk[p] = NoFile
    /\ pc = "failed" =>
          /\ InputAbsent
          /\ err.type = "FileNotFoundError"
          /\ IF ~files.dir THEN err.path = <<data_dir>>
             ELSE \E i \in 1..Len(DEFAULT_FILES) :
                     /\ DEFAULT_FILES[i][1] \notin files.present
                     /\ \A j \in 1..(i-1) : DEFAULT_FILES[j][1] \in files.present
                     /\ err.path = <<data_dir, DEFAULT_FILES[i][2]>>
C4_Witness ==
    /\ pc = "failed"
    /\ files.dir
    /\ files.present = TableNames \ {"customers", "sellers"}
    /\ save_path = ParquetPath
    /\ load_pc = "failed"

\* C5: in every row returned num_items and payment_installments are natural
\* numbers, never missing: num_items is the number of order_items rows of the
\* order, 0 when there is none; payment_installments is 0 when the order has no
\* payment row and otherwise that of a payment row of the order with the lowest
\* payment_sequential.
C5_CountsAreNaturals ==
    BuildReturned =>
        \A i \in OutRows :
            LET items == RowsWith("order_items", "order_id", orders[i].order_id)
                pays == RowsWith("order_payments", "order_id", orders[i].order_id)
            IN  /\ ~IsNull(orders[i].num_items)
                /\ ~IsNull(orders[i].payment_installments)
                /\ Val(orders[i].num_items) \in Nat
                /\ Val(orders[i].payment_installments) \in Nat
                /\ Val(orders[i].num_items) = Cardinality(items)
                /\ IF pays = {} THEN Val(orders[i].payment_installments) = 0
                   ELSE \E k \in pays :
                           /\ \A m \in pays :
                                  Val(Input("order_payments")[k].payment_sequential)
                                      <= Val(Input("order_payments")[m].payment_sequential)
                           /\ orders[i].payment_installments
                                  = Input("order_payments")[k].payment_installments
C5_Witness ==
    /\ BuildReturned
    /\ \E i, j \in OutRows :
          /\ orders[i].num_items = Some(0) /\ orders[i].payment_installments = Some(0)
          /\ RowsWith("order_payments", "order_id", orders[i].order_id) = {}
          /\ orders[j].num_items = Some(2) /\ Val(orders[j].payment_installments) > 0

\* C6: for every row returned order_value and freight_value are the sums of
\* price and of freight_value over the order_items rows of the order, num_items
\* is their number, product_id and seller_id are those of the first of these
\* rows in the file; with no such row they are 0, 0, 0, "" and "".
C6_ItemAggregates ==
    BuildReturned =>
        \A i \in OutRows :
            LET items == Input("order_items")
                mine == RowsWith("order_items", "order_id", orders[i].order_id)
                Total(col) == SumSeq([k \in 1..Len(items) |->
                                        IF k \in mine THEN Val(items[k][col]) ELSE 0])
            IN  /\ orders[i].order_value = Some(Total("price"))
                /\ orders[i].freight_value = Some(Total("freight_value"))
                /\ orders[i].num_items = Some(Cardinality(mine))
                /\ IF mine = {}
                   THEN orders[i].product_id = Some("") /\ orders[i].seller_id = Some("")
                   ELSE \E k \in mine :
                           /\ \A m \in mine : k <= m
                           /\ orders[i].product_id = items[k].product_id
                           /\ orders[i].seller_id = items[k].seller_id
C6_Witness ==
    /\ BuildReturned
    /\ Len(Input("order_items")) = 2
    /\ Input("order_items")[1].product_id # Input("order_items")[2].product_id
    /\ \E i \in OutRows :
          /\ orders[i].order_value = Some(30) /\ orders[i].freight_value = Some(3)
          /\ orders[i].num_items = Some(2)
          /\ orders[i].product_id = Input("order_items")[1].product_id

\* C7: payment_type, payment_installments and payment_value of a row returned
\* are those of one payment row of the order, whose payment_sequential is the
\* lowest among the payment rows of the order; an order with no payment row has
\* payment_type "unknown" and payment_installments 0.
C7_PrimaryPayment ==
    BuildReturned =>
        \A i \in OutRows :
            LET pays == Input("order_payments")
                mine == RowsWith("order_payments", "order_id", orders[i].order_id)
            IN  IF mine = {}
                THEN /\ orders[i].payment_type = Some("unknown")
                     /\ orders[i].payment_installments = Some(0)
                ELSE \E k \in mine :
                        /\ \A m \in mine : Val(pays[k].payment_sequential)
                                               <= Val(pays[m].payment_sequential)
                        /\ orders[i].payment_type = pays[k].payment_type
                        /\ orders[i].payment_installments = pays[k].payment_installments
                        /\ orders[i].payment_value = pays[k].payment_value
C7_Witness ==
    /\ BuildReturned
    /\ Len(Input("order_payments")) = 2
    /\ Input("order_payments")[1].order_id = Input("order_payments")[2].order_id
    /\ Input("order_payments")[1].payment_sequential = Some(2)
    /\ Input("order_payments")[2].payment_sequential = Some(1)
    /\ Input("order_payments")[1].payment_type # Input("order_payments")[2].payment_type
    /\ \E i \in OutRows :
          /\ orders[i].order_id = Input("order_payments")[2].order_id
          /\ orders[i].payment_type = Input("order_payments")[2].payment_type
          /\ orders[i].payment_value = Input("order_payments")[2].payment_value

IsGeoMean(q, z, col) ==
    LET geo == Input("geolocation")
        rows == {k \in 1..Len(geo) : /\ geo[k].geolocation_zip_code_prefix = Some(z)
                                      /\ ~IsNull(geo[k][col])}
        total == SumSeq([k \in 1..Len(geo) |-> IF k \in rows THEN Val(geo[k][col]) ELSE 0])
    IN  IF rows = {} THEN IsNull(q)
        ELSE /\ ~IsNull(q)
             /\ Val(q)[2] > 0
             /\ Val(q)[1] * Cardinality(rows) = total * Val(q)[2]
\* the zip prefix cells the join with table t on column key can give a row
JoinedZips(t, key, id, zip) ==
    IF RowsWith(t, key, id) = {} THEN {Null}
    ELSE {Input(t)[k][zip] : k \in RowsWith(t, key, id)}

\* C9: when the geolocation join is made, a row whose customer (seller) zip
\* prefix is missing after the customer (seller) join has zip prefix 0 and the
\* mean latitude and longitude of the geolocation rows of prefix 0, missing if
\* there is none; a row with prefix z has the means of the rows of prefix z,
\* missing if there is none.
C9_ZipCoercedToZero ==
    (BuildReturned /\ HasColumn("geolocation", "geolocation_zip_code_prefix")) =>
        \A i \in OutRows :
            /\ \E c \in JoinedZips("customers", "customer_id", orders[i].customer_id,
                                    "customer_zip_code_prefix") :
                  LET z == IF IsNull(c) THEN 0 ELSE Val(c)
                  IN  /\ orders[i].customer_zip_code_prefix = Some(z)
                      /\ IsGeoMean(orders[i].customer_lat, z, "geolocation_lat")
                      /\ IsGeoMean(orders[i].customer_lng, z, "geolocation_lng")
            /\ \E c \in JoinedZips("sellers", "seller_id", orders[i].seller_id,
                                    "seller_zip_code_prefix") :
                  LET z == IF IsNull(c) THEN 0 ELSE Val(c)
                  IN  /\ orders[i].seller_zip_code_prefix = Some(z)
                      /\ IsGeoMean(orders[i].seller_lat, z, "geolocation_lat")
                      /\ IsGeoMean(orders[i].seller_lng, z, "geolocation_lng")
\* a customer unknown to the customers table gets the coordinates of prefix 0
C9_Witness ==
    /\ BuildReturned
    /\ HasColumn("geolocation", "geolocation_zip_code_prefix")
    /\ \E k \in 1..Len(Input("geolocation")) :
          /\ Input("geolocation")[k].geolocation_zip_code_prefix = Some(10)
          /\ Input("geolocation")[k].geolocation_lat = Some(-2)
    /\ \E i \in OutRows :
          /\ JoinedZips("customers", "customer_id", orders[i].customer_id,
                        "customer_zip_code_prefix") = {Null}
          /\ orders[i].customer_zip_code_prefix = Some(0)
          /\ orders[i].customer_lat = Some(<<4, 1>>)
          /\ orders[i].customer_lng = Some(<<6, 1>>)

\* C10: product_category_english of a row returned is an English name the
\* translation table gives for the row's product_category_name when it has one,
\* and otherwise the row's product_category_name; when that is missing it is
\* missing or empty, with or without a product_category_name column in the
\* translation table, and never another string.
C10_EnglishOrOriginal ==
    BuildReturned =>
        \A i \in OutRows :
            LET name == orders[i].product_category_name
                trans == IF HasColumn("category_translation", "product_category_name")
                         THEN RowsWith("category_translation", "product_category_name", name)
                         ELSE {}
            IN  IF trans # {}
                THEN \E k \in trans : orders[i].product_category_english
                          = Input("category_translation")[k].product_category_name_english
                ELSE IF IsNull(name)
                THEN orders[i].product_category_english \in {Null, Some("")}
                ELSE orders[i].product_category_english = name

====
